---------------------------- MODULE Spec2Model ----------------------------
(***************************************************************************)
(* Advent of Code 2023, the days of this repository.                       *)
(*                                                                         *)
(* Day 05, "If You Give A Seed A Fertilizer" (src/day05/src/main.rs):      *)
(* the almanac is read line by line from the input stream                  *)
(* (Almanac::from_input_stream, TransformationMap::from,                   *)
(* Transformation::from) and then evaluated seed by seed                   *)
(* (Almanac::apply_transformations_and_keep_lower_result).                 *)
(* Days 06, 04, 01 and 03 follow, each with the functions of its source    *)
(* and a specification of its own that calls them on the inputs under      *)
(* test.                                                                   *)
(*                                                                         *)
(* Numbers are u64 in the program.  The model keeps the width, scaled      *)
(* down: a u64 is a number in 0..U64Max.  An addition that leaves this     *)
(* range panics when the build has overflow checks (the debug profile)     *)
(* and wraps when it has none (the release profile); the profile is not    *)
(* part of the sources, so the model takes either.                         *)
(***************************************************************************)
EXTENDS Integers, Sequences, FiniteSets, TLC

\* Stand-in for u64::MAX.
U64Max == 127
\* Longest list of numbers on the seeds line of an arbitrary input.
MaxSeedNums == 4
\* Longest arbitrary input, in lines.
MaxLines == 7
\* Most rule lines under one map header of an arbitrary input, and most
\* rules of a map under test.
MaxRules == 2

(***************************************************************************)
(* Option<T>: None is the empty sequence, Some(x) the sequence <<x>>.      *)
(***************************************************************************)
None == <<>>
Some(x) == <<x>>

(***************************************************************************)
(* The outcome of a call: it returns a value or it panics with a message.  *)
(***************************************************************************)
Return(x) == [panic |-> "", val |-> <<x>>]
Panic(msg) == [panic |-> msg, val |-> <<>>]
NotCalled == [panic |-> "", val |-> <<>>]

AddOverflow == "attempt to add with overflow"
UnwrapNone == "called Option::unwrap() on a None value"

\* a + b leaves u64.
Overflows(a, b) == a + b > U64Max
\* a + b as the release profile computes it.
WrappingAdd(a, b) == (a + b) % (U64Max + 1)

(***************************************************************************)
(* Input lines.  A line is known by what the program asks of it: which of  *)
(* the two regular expressions it matches, whether it is empty, and its    *)
(* whitespace-separated tokens.  A token is an integer: a token in         *)
(* 0..U64Max is a decimal u64 literal, one above U64Max is a digit string  *)
(* too long for u64, and NotANumber is any token str::parse::<u64>         *)
(* rejects ("seeds:", "map:", "x", "-1").                                  *)
(***************************************************************************)
NotANumber == -1
EndOfInput == [kind |-> "eof", toks |-> <<>>]
BlankLine == [kind |-> "blank", toks |-> <<>>]
HeaderLine == [kind |-> "header", toks |-> <<NotANumber, NotANumber>>]
\* A line of text that matches neither regular expression, such as a
\* misspelled header.
TextLine == [kind |-> "text", toks |-> <<NotANumber>>]
\* "seeds: n0 n1 ...": every n a non-empty digit string.
SeedsLine(nums) == [kind |-> "seeds", toks |-> <<NotANumber>> \o nums]
\* A line of whitespace-separated tokens only (none: a line of spaces).
NumbersLine(toks) == [kind |-> "numbers", toks |-> toks]

\* s.parse::<u64>() succeeds.
ParsesAsU64(tok) == tok >= 0 /\ tok <= U64Max

\* All sequences over S of length lo..hi.
SeqsOf(S, lo, hi) == UNION {[1..n -> S] : n \in lo..hi}

(***************************************************************************)
(* The lines an arbitrary input is made of.                                *)
(***************************************************************************)
\* The numbers of a seeds line: at the odd places (a seed, or the start of a
\* range) and at the even places (a seed, or the length of a range).
OddPlaceTokens == {0, 2, U64Max, U64Max + 1}
EvenPlaceTokens == {0, 1, 2}
SeedsLines ==
    { SeedsLine(nums) :
        nums \in { s \in SeqsOf(OddPlaceTokens \cup EvenPlaceTokens, 1, MaxSeedNums) :
                     \A i \in 1..Len(s) :
                        s[i] \in (IF i % 2 = 1 THEN OddPlaceTokens
                                  ELSE EvenPlaceTokens) } }
RuleLines ==
    { NumbersLine(t) : t \in { <<0, 0, 5>>, <<10, 3, 5>>, <<5, 1, 3>>,
                               <<3, 1, 0>>,
                               <<0, U64Max, 1>>, <<U64Max, 0, 2>> } }
MalformedLines ==
    { NumbersLine(t) : t \in { <<>>, <<0, 0>>, <<0, 0, 1, 1>>,
                               <<0, NotANumber, 1>>, <<U64Max + 1, 0, 1>> } }
\* Past the first line one seeds line stands for all: the program asks of
\* it only what it asks of any line there.
LaterLines ==
    RuleLines \cup MalformedLines
        \cup {BlankLine, HeaderLine, TextLine, SeedsLine(<<0>>)}
Vocabulary == SeedsLines \cup LaterLines

(***************************************************************************)
(* The input of test_transformation_one_seed.                              *)
(***************************************************************************)
TestInput ==
    << SeedsLine(<<79, 14, 55, 13>>),
       BlankLine,
       HeaderLine,
       NumbersLine(<<50, 98, 2>>),
       NumbersLine(<<52, 50, 48>>),
       BlankLine,
       HeaderLine,
       NumbersLine(<<0, 15, 37>>),
       NumbersLine(<<37, 52, 2>>),
       NumbersLine(<<39, 0, 15>>) >>

VARIABLES
    pc,                   \* where the program is
    line_itr,             \* the input stream: what is left of it
    seed_parsing_mode,    \* SeedParsingMode
    seeds,                \* Almanac.seeds, a set of SeedRange
    transformation_maps,  \* Almanac.transformation_maps
    transformations,      \* the rules of the map being read
    outcome,              \* what the run or the call ended with
    overflow_checks,      \* "on": the build panics on integer overflow
    call,                 \* the last call recorded: on a map under test, or
                          \* the run of part1 that came before
    race,                 \* day 06: the Race a call is made on
    cards,                \* day 04: CardSet.cards
    document,             \* day 01: the lines of the input stream
    identification_mode,  \* day 01: IdentificationMode
    schematic             \* day 03: Schematic.map

\* The variables of each of the other days, which day 05 leaves alone.
day06 == << race >>
day04 == << cards >>
day01 == << document, identification_mode >>
day03 == << schematic >>
other_days == << day06, day04, day01, day03 >>

vars == << pc, line_itr, seed_parsing_mode, seeds, transformation_maps,
           transformations, outcome, overflow_checks, call, race, cards,
           document, identification_mode, schematic >>

\* A day not entered.
NoRace == [time |-> 0, distance |-> 0]
Day06Idle == race = NoRace
Day04Idle == cards = <<>>
Day01Idle == document = <<>> /\ identification_mode = "Digit"
Day03Idle == schematic = <<>>
OtherDaysIdle == Day06Idle /\ Day04Idle /\ Day01Idle /\ Day03Idle

NoCall == [fn |-> "none", rule |-> 0, ret |-> <<>>]

\* A given input (its lines) or an arbitrary one (any line of Vocabulary,
\* at most MaxLines of them).
GivenInput(lines) == [given |-> TRUE, rest |-> lines, nb_read |-> 0,
                      ended |-> FALSE]
ArbitraryInput == [given |-> FALSE, rest |-> <<>>, nb_read |-> 0,
                   ended |-> FALSE]

\* What line_itr.next() may yield.  After the end, the end again.
NextLines ==
    IF line_itr.given
    THEN IF line_itr.rest = <<>> THEN {EndOfInput} ELSE {Head(line_itr.rest)}
    ELSE IF line_itr.ended \/ line_itr.nb_read >= MaxLines
         THEN {EndOfInput}
         ELSE IF line_itr.nb_read = 0 THEN Vocabulary \cup {EndOfInput}
         ELSE LaterLines \cup {EndOfInput}

\* line_itr after next() yielded line.
Advance(line) ==
    IF line = EndOfInput
    THEN [line_itr EXCEPT !.ended = TRUE]
    ELSE IF line_itr.given
         THEN [line_itr EXCEPT !.rest = Tail(@)]
         ELSE [line_itr EXCEPT !.nb_read = @ + 1]

\* The run ends in a panic: nothing of the almanac is handed on.
Abort(msg) ==
    /\ pc' = "panicked"
    /\ outcome' = Panic(msg)
    /\ seeds' = {}
    /\ transformation_maps' = <<>>
    /\ transformations' = <<>>

(***************************************************************************)
(* Almanac::from_input_stream, the seeds of the first line.                *)
(***************************************************************************)
SeedRange(start, length) == [start |-> start, length |-> length]

\* SeedParsingMode::SeedRange: the loop over the numbers from index (0-based)
\* on, with last_seed and the ranges inserted so far.
RECURSIVE SeedRangeLoop(_, _, _, _)
SeedRangeLoop(nums, index, last_seed, result_seeds) ==
    IF index >= Len(nums) THEN result_seeds
    ELSE LET current_nb == nums[index + 1] IN
         IF index % 2 = 0
         THEN SeedRangeLoop(nums, index + 1, current_nb, result_seeds)
         ELSE SeedRangeLoop(nums, index + 1, last_seed,
                            result_seeds \cup {SeedRange(last_seed, current_nb)})

\* A slip SeedParsingMode::SeedRange could have made: every number paired
\* with its right neighbour, not the numbers taken two by two.
SeedsInRangeMode_EveryNeighbour(nums) ==
    { SeedRange(nums[i], nums[i + 1]) : i \in 1..(Len(nums) - 1) }

SeedsInRangeMode(nums) == SeedRangeLoop(nums, 0, 0, {})

\* SeedParsingMode::OneSeed: each number a range of length 1.
SeedsInOneSeedMode(nums) ==
    { SeedRange(nums[i], 1) : i \in 1..Len(nums) }

ParseSeeds(mode, nums) ==
    IF mode = "SeedRange" THEN SeedsInRangeMode(nums)
    ELSE SeedsInOneSeedMode(nums)

ReadSeedsLine(line) ==
    /\ pc = "seeds_line"
    /\ UNCHANGED other_days
    /\ line_itr' = Advance(line)
    /\ UNCHANGED << seed_parsing_mode, overflow_checks, call >>
    /\ IF line = EndOfInput THEN Abort("No seeds line found")
       ELSE IF line.kind # "seeds" THEN Abort("Invalid seeds line")
       ELSE LET nums == Tail(line.toks) IN
            IF \E i \in 1..Len(nums) : ~ParsesAsU64(nums[i])
            THEN Abort("Cannot parse seed")
            ELSE /\ seeds' = ParseSeeds(seed_parsing_mode, nums)
                 /\ pc' = "empty_line"
                 /\ UNCHANGED << transformation_maps, transformations, outcome >>

ReadEmptyLine(line) ==
    /\ pc = "empty_line"
    /\ UNCHANGED other_days
    /\ line_itr' = Advance(line)
    /\ UNCHANGED << seed_parsing_mode, overflow_checks, call >>
    /\ IF line = EndOfInput THEN Abort("No empty line found")
       ELSE IF line.kind # "blank" THEN Abort("Expected empty line")
       ELSE /\ pc' = "map_header"
            /\ UNCHANGED << seeds, transformation_maps, transformations, outcome >>


(***************************************************************************)
(* Transformation::from: the rule of one line.                             *)
(***************************************************************************)
Transformation(dest, src, len) ==
    [destination_category |-> dest, source_start_range |-> src,
     source_range |-> len]

Transformation_from(line) ==
    LET numbers == line.toks IN
    IF \E i \in 1..Len(numbers) : ~ParsesAsU64(numbers[i])
    THEN Panic("Cannot parse transformation number")
    ELSE IF Len(numbers) # 3
    THEN Panic("Invalid transformation line")
    ELSE Return(Transformation(numbers[1], numbers[2], numbers[3]))

(***************************************************************************)
(* TransformationMap::from, called in the loop of from_input_stream: the   *)
(* header line, then the lines up to an empty line or the end.             *)
(***************************************************************************)
ReadMapHeader(line) ==
    /\ pc = "map_header"
    /\ UNCHANGED other_days
    /\ line_itr' = Advance(line)
    /\ UNCHANGED << seed_parsing_mode, overflow_checks, call, seeds,
                    transformation_maps, transformations, outcome >>
    /\ IF line = EndOfInput \/ line.kind # "header"
       THEN pc' = "built"        \* None: the loop ends, the Almanac is returned
       ELSE pc' = "map_lines"

ReadMapLine(line) ==
    /\ pc = "map_lines"
    /\ UNCHANGED other_days
    /\ ~line_itr.given /\ Len(transformations) >= MaxRules
          => Transformation_from(line).panic # ""
    /\ line_itr' = Advance(line)
    /\ UNCHANGED << seed_parsing_mode, overflow_checks, call >>
    /\ IF line = EndOfInput \/ line.kind = "blank"
       THEN /\ transformation_maps' = Append(transformation_maps, transformations)
            /\ transformations' = <<>>
            /\ pc' = "map_header"
            /\ UNCHANGED << seeds, outcome >>
       ELSE LET made == Transformation_from(line) IN
            IF made.panic # "" THEN Abort(made.panic)
            ELSE /\ transformations' = Append(transformations, made.val[1])
                 /\ UNCHANGED << pc, seeds, transformation_maps, outcome >>

(***************************************************************************)
(* Two slips Transformation::apply_transformation could have made: the     *)
(* end of the source interval taken inclusive, and the delta left out of   *)
(* the result.                                                             *)
(***************************************************************************)
Transformation_apply_transformation_InclusiveEnd(t, initial_value, checks) ==
    IF initial_value < t.source_start_range THEN Return(None)
    ELSE IF checks /\ Overflows(t.source_start_range, t.source_range)
    THEN Panic(AddOverflow)
    ELSE IF initial_value <= WrappingAdd(t.source_start_range, t.source_range)
    THEN LET delta == initial_value - t.source_start_range IN
         IF checks /\ Overflows(t.destination_category, delta)
         THEN Panic(AddOverflow)
         ELSE Return(Some(WrappingAdd(t.destination_category, delta)))
    ELSE Return(None)

Transformation_apply_transformation_NoDelta(t, initial_value, checks) ==
    IF initial_value < t.source_start_range THEN Return(None)
    ELSE IF checks /\ Overflows(t.source_start_range, t.source_range)
    THEN Panic(AddOverflow)
    ELSE IF initial_value < WrappingAdd(t.source_start_range, t.source_range)
    THEN Return(Some(t.destination_category))
    ELSE Return(None)

(***************************************************************************)
(* Transformation::apply_transformation.  The sum source_start_range +     *)
(* source_range is computed only when the first comparison holds (&&);     *)
(* destination_category + delta only inside the interval.                  *)
(***************************************************************************)
Transformation_apply_transformation(t, initial_value, checks) ==
    IF initial_value < t.source_start_range THEN Return(None)
    ELSE IF checks /\ Overflows(t.source_start_range, t.source_range)
    THEN Panic(AddOverflow)
    ELSE IF initial_value < WrappingAdd(t.source_start_range, t.source_range)
    THEN LET delta == initial_value - t.source_start_range IN
         IF checks /\ Overflows(t.destination_category, delta)
         THEN Panic(AddOverflow)
         ELSE Return(Some(WrappingAdd(t.destination_category, delta)))
    ELSE Return(None)

(***************************************************************************)
(* TransformationMap::apply_transformation: the first rule that applies    *)
(* decides, and the value is returned as it is when none does.             *)
(***************************************************************************)
RECURSIVE TransformationMapLoop(_, _, _, _)
TransformationMapLoop(ts, i, initial_value, checks) ==
    IF i > Len(ts) THEN Return(initial_value)
    ELSE LET transformation_result ==
                 Transformation_apply_transformation(ts[i], initial_value, checks)
         IN  IF transformation_result.panic # "" THEN transformation_result
             ELSE IF transformation_result.val[1] # None
             THEN Return(transformation_result.val[1][1])
             ELSE TransformationMapLoop(ts, i + 1, initial_value, checks)

TransformationMap_apply_transformation(ts, initial_value, checks) ==
    TransformationMapLoop(ts, 1, initial_value, checks)

(***************************************************************************)
(* Almanac::apply_transformations_and_keep_lower_result.                   *)
(***************************************************************************)
\* The derived Ord of SeedRange: by start, then by length.
SeedRangeLess(a, b) ==
    \/ a.start < b.start
    \/ a.start = b.start /\ a.length < b.length

\* self.seeds.iter(): the BTreeSet in ascending order.
RECURSIVE SeedsIter(_)
SeedsIter(set) ==
    IF set = {} THEN <<>>
    ELSE LET first == CHOOSE a \in set : \A b \in set \ {a} : SeedRangeLess(a, b)
         IN  <<first>> \o SeedsIter(set \ {first})

\* for transformation_map in &self.transformation_maps, from the i-th on.
RECURSIVE MapsLoop(_, _, _, _)
MapsLoop(maps, i, transformation_result, checks) ==
    IF i > Len(maps) THEN Return(transformation_result)
    ELSE LET r == TransformationMap_apply_transformation(
                      maps[i], transformation_result, checks)
         IN  IF r.panic # "" THEN r
             ELSE MapsLoop(maps, i + 1, r.val[1], checks)

\* if lower_result.is_none() || transformation_result < lower_result.unwrap()
KeepLower(lower_result, transformation_result) ==
    IF lower_result = None \/ transformation_result < lower_result[1]
    THEN Some(transformation_result)
    ELSE lower_result

\* The body of the loop over the seeds of one range, for one seed.
SeedStep(seed, maps, lower_result, checks) ==
    LET r == MapsLoop(maps, 1, seed, checks) IN
    IF r.panic # "" THEN r
    ELSE Return(KeepLower(lower_result, r.val[1]))

\* for seed in seed..end_, with the lower_result so far: the iterations in
\* ascending order, the first half of the interval and then the second.
RECURSIVE SeedLoop(_, _, _, _, _)
SeedLoop(seed, end_, maps, lower_result, checks) ==
    IF seed >= end_ THEN Return(lower_result)
    ELSE IF seed + 1 = end_ THEN SeedStep(seed, maps, lower_result, checks)
    ELSE LET mid == (seed + end_) \div 2
             r == SeedLoop(seed, mid, maps, lower_result, checks)
         IN  IF r.panic # "" THEN r
             ELSE SeedLoop(mid, end_, maps, r.val[1], checks)

\* for seedrange in self.seeds.iter(), from the k-th on.
RECURSIVE SeedRangesLoop(_, _, _, _, _)
SeedRangesLoop(ranges, k, maps, lower_result, checks) ==
    IF k > Len(ranges) THEN Return(lower_result)
    ELSE LET seedrange == ranges[k] IN
         IF checks /\ Overflows(seedrange.start, seedrange.length)
         THEN Panic(AddOverflow)
         ELSE LET r == SeedLoop(seedrange.start,
                                WrappingAdd(seedrange.start, seedrange.length),
                                maps, lower_result, checks)
              IN  IF r.panic # "" THEN r
                  ELSE SeedRangesLoop(ranges, k + 1, maps, r.val[1], checks)

Almanac_apply_transformations_and_keep_lower_result(seedset, maps, checks) ==
    LET r == SeedRangesLoop(SeedsIter(seedset), 1, maps, None, checks) IN
    IF r.panic # "" THEN r
    ELSE IF r.val[1] = None THEN Panic(UnwrapNone)
    ELSE Return(r.val[1][1])

\* The calls of TransformationMap::apply_transformation an evaluation that
\* runs to its end makes: one per map for every seed of every range.
NbOfSeeds(seedrange) ==
    LET end_ == WrappingAdd(seedrange.start, seedrange.length) IN
    IF seedrange.start < end_ THEN end_ - seedrange.start ELSE 0

RECURSIVE NbOfLayerApplications(_, _, _)
NbOfLayerApplications(ranges, k, maps) ==
    IF k > Len(ranges) THEN 0
    ELSE NbOfSeeds(ranges[k]) * Len(maps)
             + NbOfLayerApplications(ranges, k + 1, maps)

\* solve_part1, solve_part2: the almanac that was built is evaluated.  No
\* addition is made before this point, so the build shows only here.
Evaluate(checks) ==
    /\ pc = "built"
    /\ UNCHANGED other_days
    /\ pc' = "evaluated"
    /\ overflow_checks' = (IF checks THEN "on" ELSE "off")
    /\ outcome' = Almanac_apply_transformations_and_keep_lower_result(
                      seeds, transformation_maps, checks)
    /\ UNCHANGED << line_itr, seed_parsing_mode, seeds, transformation_maps,
                    transformations, call >>

(***************************************************************************)
(* The program: an input, a part (the seed parsing mode) and a build.      *)
(***************************************************************************)
Init ==
    /\ pc = "seeds_line"
    /\ OtherDaysIdle
    /\ line_itr \in {ArbitraryInput, GivenInput(TestInput)}
    /\ seed_parsing_mode \in {"OneSeed", "SeedRange"}
    /\ overflow_checks = "unknown"
    /\ seeds = {}
    /\ transformation_maps = <<>>
    /\ transformations = <<>>
    /\ outcome = NotCalled
    /\ call = NoCall

Next ==
    \/ \E line \in NextLines : ReadSeedsLine(line)
    \/ \E line \in NextLines : ReadEmptyLine(line)
    \/ \E line \in NextLines : ReadMapHeader(line)
    \/ \E line \in NextLines : ReadMapLine(line)
    \/ \E checks \in BOOLEAN : Evaluate(checks)

Spec == Init /\ [][Next]_vars

(***************************************************************************)
(* One map under test: TransformationMap::apply_transformation and         *)
(* Transformation::apply_transformation as functions of the map, the       *)
(* value and the build.  A layer is applied to its inputs one value at a   *)
(* time (the inner loops of the evaluation); a call on the map records     *)
(* what the layer returns on each value of a small input set.              *)
(***************************************************************************)
RulesUnderTest ==
    { Transformation(d, s, l) :
        d \in {0, U64Max}, s \in {0, 1, U64Max}, l \in {0, 1, 2} }
        \cup {Transformation(50, 98, 2)}
MapsUnderTest == SeqsOf(RulesUnderTest, 0, MaxRules)
ValuesUnderTest == {0, 1, 2, 97, 98, 99, U64Max}
\* Input sets of one or two values.
InputsUnderTest == { {a, b} : a \in ValuesUnderTest, b \in ValuesUnderTest }

MapUnderTest == transformation_maps[1]

CallTransformation(i, initial_value, checks) ==
    /\ pc = "map_under_test"
    /\ UNCHANGED other_days
    /\ i \in 1..Len(MapUnderTest)
    /\ call' = [fn |-> "Transformation::apply_transformation",
                rule |-> i,
                ret |-> [v \in {initial_value} |->
                           Transformation_apply_transformation(
                               MapUnderTest[i], v, checks)]]
    /\ overflow_checks' = (IF checks THEN "on" ELSE "off")
    /\ pc' = "returned"
    /\ UNCHANGED << line_itr, seed_parsing_mode, seeds,
                    transformation_maps, transformations, outcome >>

CallTransformationMap(inputs, checks) ==
    /\ pc = "map_under_test"
    /\ UNCHANGED other_days
    /\ call' = [fn |-> "TransformationMap::apply_transformation",
                rule |-> 0,
                ret |-> [v \in inputs |->
                           TransformationMap_apply_transformation(
                               MapUnderTest, v, checks)]]
    /\ overflow_checks' = (IF checks THEN "on" ELSE "off")
    /\ pc' = "returned"
    /\ UNCHANGED << line_itr, seed_parsing_mode, seeds,
                    transformation_maps, transformations, outcome >>

InitMap ==
    /\ pc = "map_under_test"
    /\ OtherDaysIdle
    /\ transformation_maps \in { <<m>> : m \in MapsUnderTest }
    /\ line_itr = ArbitraryInput
    /\ seed_parsing_mode = "OneSeed"
    /\ overflow_checks = "unknown"
    /\ seeds = {}
    /\ transformations = <<>>
    /\ outcome = NotCalled
    /\ call = NoCall

NextMap ==
    \/ \E i \in 1..MaxRules, v \in ValuesUnderTest, checks \in BOOLEAN :
          CallTransformation(i, v, checks)
    \/ \E inputs \in InputsUnderTest, checks \in BOOLEAN :
          CallTransformationMap(inputs, checks)

SpecMap == InitMap /\ [][NextMap]_vars

(***************************************************************************)
(* Almanac::from_input_stream as a function of the lines of the input and  *)
(* of the mode: what the steps above do, line after line, taken together.  *)
(* A map is returned with the lines left after it.                         *)
(***************************************************************************)
\* TransformationMap::from, the lines under the header.
RECURSIVE TransformationLinesLoop(_, _)
TransformationLinesLoop(lines, rules) ==
    IF lines = <<>>
    THEN [panic |-> "", map |-> Some(rules), rest |-> <<>>]
    ELSE IF Head(lines).kind = "blank"
    THEN [panic |-> "", map |-> Some(rules), rest |-> Tail(lines)]
    ELSE LET made == Transformation_from(Head(lines)) IN
         IF made.panic # ""
         THEN [panic |-> made.panic, map |-> None, rest |-> Tail(lines)]
         ELSE TransformationLinesLoop(Tail(lines), Append(rules, made.val[1]))

TransformationMap_from(lines) ==
    IF lines = <<>>
    THEN [panic |-> "", map |-> None, rest |-> <<>>]
    ELSE IF Head(lines).kind # "header"
    THEN [panic |-> "", map |-> None, rest |-> Tail(lines)]
    ELSE TransformationLinesLoop(Tail(lines), <<>>)

\* while let Some(transformation_map) = TransformationMap::from(&mut line_itr)
RECURSIVE TransformationMapsLoop(_, _)
TransformationMapsLoop(lines, maps) ==
    LET transformation_map == TransformationMap_from(lines) IN
    IF transformation_map.panic # "" THEN Panic(transformation_map.panic)
    ELSE IF transformation_map.map = None THEN Return(maps)
    ELSE TransformationMapsLoop(transformation_map.rest,
                                Append(maps, transformation_map.map[1]))

Almanac(seedset, maps) == [seeds |-> seedset, transformation_maps |-> maps]

Almanac_from_input_stream(lines, mode) ==
    IF lines = <<>> THEN Panic("No seeds line found")
    ELSE IF Head(lines).kind # "seeds" THEN Panic("Invalid seeds line")
    ELSE LET nums == Tail(Head(lines).toks)
             rest == Tail(lines)
         IN  IF \E i \in 1..Len(nums) : ~ParsesAsU64(nums[i])
             THEN Panic("Cannot parse seed")
             ELSE IF rest = <<>> THEN Panic("No empty line found")
             ELSE IF Head(rest).kind # "blank" THEN Panic("Expected empty line")
             ELSE LET maps == TransformationMapsLoop(Tail(rest), <<>>) IN
                  IF maps.panic # "" THEN maps
                  ELSE Return(Almanac(ParseSeeds(mode, nums), maps.val[1]))

(***************************************************************************)
(* The two parts on one input: the program is run with part1 and then      *)
(* with part2 on the same file.  Each run reads the input from its start,  *)
(* builds its almanac and evaluates it; what the first run built and       *)
(* ended with is kept in call beside the second.                           *)
(***************************************************************************)
\* What may follow the seeds line.
TailsUnderTest ==
    { <<>>,
      <<BlankLine>>,
      <<TextLine>>,
      Tail(TestInput),
      <<BlankLine, HeaderLine, NumbersLine(<<0, 0, 5>>),
        NumbersLine(<<10, 3, 5>>)>>,
      <<BlankLine, HeaderLine, BlankLine, HeaderLine,
        NumbersLine(<<5, 1, 3>>)>>,
      <<BlankLine, HeaderLine, NumbersLine(<<0, 0>>)>>,
      <<BlankLine, TextLine, HeaderLine, NumbersLine(<<0, 0, 5>>)>> }
InputsOfParts ==
    { <<first>> \o tail :
        first \in SeedsLines \cup {Head(TestInput), TextLine},
        tail \in TailsUnderTest }

\* solve_part1, solve_part2: the body they share.
Solve(mode, checks) ==
    LET almanac == Almanac_from_input_stream(line_itr.rest, mode) IN
    /\ seed_parsing_mode' = mode
    /\ overflow_checks' = (IF checks THEN "on" ELSE "off")
    /\ transformations' = <<>>
    /\ IF almanac.panic # ""
       THEN /\ seeds' = {}
            /\ transformation_maps' = <<>>
            /\ outcome' = almanac
       ELSE /\ seeds' = almanac.val[1].seeds
            /\ transformation_maps' = almanac.val[1].transformation_maps
            /\ outcome' = Almanac_apply_transformations_and_keep_lower_result(
                              almanac.val[1].seeds,
                              almanac.val[1].transformation_maps, checks)

solve_part1(checks) ==
    /\ pc = "main"
    /\ UNCHANGED other_days
    /\ pc' = "part1_solved"
    /\ Solve("OneSeed", checks)
    /\ UNCHANGED << line_itr, call >>

solve_part2(checks) ==
    /\ pc = "part1_solved"
    /\ UNCHANGED other_days
    /\ pc' = "part2_solved"
    /\ call' = [fn |-> "solve_part1", rule |-> 0,
                ret |-> [seeds |-> seeds,
                         transformation_maps |-> transformation_maps,
                         outcome |-> outcome]]
    /\ Solve("SeedRange", checks)
    /\ UNCHANGED line_itr

InitParts ==
    /\ pc = "main"
    /\ OtherDaysIdle
    /\ line_itr \in { GivenInput(lines) : lines \in InputsOfParts }
    /\ seed_parsing_mode = "OneSeed"
    /\ overflow_checks = "unknown"
    /\ seeds = {}
    /\ transformation_maps = <<>>
    /\ transformations = <<>>
    /\ outcome = NotCalled
    /\ call = NoCall

NextParts ==
    \/ \E checks \in BOOLEAN : solve_part1(checks)
    \/ \E checks \in BOOLEAN : solve_part2(checks)

SpecParts == InitParts /\ [][NextParts]_vars

(***************************************************************************)
(* Day 05 not entered: the state the specifications of the other days      *)
(* keep for its variables.                                                 *)
(***************************************************************************)
Day05Idle ==
    /\ line_itr = ArbitraryInput
    /\ seed_parsing_mode = "OneSeed"
    /\ seeds = {}
    /\ transformation_maps = <<>>
    /\ transformations = <<>>
    /\ call = NoCall
day05 == << line_itr, seed_parsing_mode, seeds, transformation_maps,
            transformations, call >>

(***************************************************************************)
(* Day 06, "Wait For It" (src/day06/src/main.rs).                          *)
(***************************************************************************)
\* Longest race under test, in ms.
MaxTime == 16

SubOverflow == "attempt to subtract with overflow"
MulOverflow == "attempt to multiply with overflow"
DivideByZero == "attempt to divide by zero"
WrappingSub(a, b) == (a - b) % (U64Max + 1)
WrappingMul(a, b) == (a * b) % (U64Max + 1)

Race(time, distance) == [time |-> time, distance |-> distance]

\* simulate_race: the race run when the button is held hold_button_time,
\* up to the record distance.  In the struct literal time is computed
\* before distance.
simulate_race(hold_button_time, record, checks) ==
    IF checks /\ hold_button_time < 1 THEN Panic(SubOverflow)
    ELSE LET held == WrappingSub(hold_button_time, 1) IN
    IF checks /\ Overflows(record.distance, held) THEN Panic(AddOverflow)
    ELSE IF hold_button_time = 0 THEN Panic(DivideByZero)
    ELSE LET travel_time ==
                 WrappingAdd(record.distance, held) \div hold_button_time
         IN  IF checks /\ Overflows(travel_time, hold_button_time)
             THEN Panic(AddOverflow)
             ELSE IF checks /\ travel_time * hold_button_time > U64Max
             THEN Panic(MulOverflow)
             ELSE Return(Race(WrappingAdd(travel_time, hold_button_time),
                              WrappingMul(travel_time, hold_button_time)))

\* if race.distance >= self.distance && race.time <= self.time
\*    && race != *self
IsFasterSolution(self, simulated) ==
    /\ simulated.distance >= self.distance
    /\ simulated.time <= self.time
    /\ simulated # self

\* for hold_button_time in 1..self.time, from hold_button_time on, with
\* the nb_of_solutions so far.
RECURSIVE FasterSolutionsLoop(_, _, _, _)
FasterSolutionsLoop(self, hold_button_time, nb_of_solutions, checks) ==
    IF hold_button_time >= self.time THEN Return(nb_of_solutions)
    ELSE LET simulated == simulate_race(hold_button_time, self, checks) IN
         IF simulated.panic # "" THEN simulated
         ELSE FasterSolutionsLoop(
                  self, hold_button_time + 1,
                  IF IsFasterSolution(self, simulated.val[1])
                  THEN nb_of_solutions + 1 ELSE nb_of_solutions,
                  checks)

Race_compute_nb_of_faster_solutions(self, checks) ==
    FasterSolutionsLoop(self, 1, 0, checks)

\* The first race of test_races, and every race of at most MaxTime ms.
RacesUnderTest ==
    { Race(t, d) : t \in 0..MaxTime, d \in 0..U64Max } \cup {Race(7, 9)}

compute_nb_of_faster_solutions(checks) ==
    /\ pc = "race"
    /\ pc' = "race_computed"
    /\ overflow_checks' = (IF checks THEN "on" ELSE "off")
    /\ outcome' = Race_compute_nb_of_faster_solutions(race, checks)
    /\ UNCHANGED << day05, day06, day04, day01, day03 >>

InitRace ==
    /\ pc = "race"
    /\ race \in RacesUnderTest
    /\ Day05Idle /\ Day04Idle /\ Day01Idle /\ Day03Idle
    /\ overflow_checks = "unknown"
    /\ outcome = NotCalled

NextRace == \E checks \in BOOLEAN : compute_nb_of_faster_solutions(checks)

SpecRace == InitRace /\ [][NextRace]_vars

(***************************************************************************)
(* Day 04, "Scratchcards" (src/day04/src/main.rs).  Numbers are u32 in     *)
(* the program; as for u64 the model keeps the width, scaled down.         *)
(***************************************************************************)
\* Stand-in for u32::MAX.
U32Max == 1023
\* Most cards of an arbitrary card set, and most numbers of an arbitrary
\* card.
MaxCards == 4
MaxNumbers == 3
\* Most cards of a set of cards that all match ten numbers.
MaxBigCards == 12

Overflows32(n) == n > U32Max
Wrapping32(n) == n % (U32Max + 1)

Card(id, winning_numbers, numbers) ==
    [id |-> id, winning_numbers |-> winning_numbers, numbers |-> numbers]

\* self.winning_numbers.contains(number)
Contains(vec, x) == \E i \in 1..Len(vec) : vec[i] = x

\* Card::compute_nb_of_matching_numbers: for number in &self.numbers, from
\* the i-th on.
RECURSIVE MatchingNumbersLoop(_, _, _)
MatchingNumbersLoop(self, i, nb_of_matching_numbers) ==
    IF i > Len(self.numbers) THEN nb_of_matching_numbers
    ELSE MatchingNumbersLoop(
             self, i + 1,
             IF Contains(self.winning_numbers, self.numbers[i])
             THEN nb_of_matching_numbers + 1 ELSE nb_of_matching_numbers)

Card_compute_nb_of_matching_numbers(self) == MatchingNumbersLoop(self, 1, 0)

\* base to the exp, over the integers.
RECURSIVE Power(_, _)
Power(base, exp) == IF exp = 0 THEN 1 ELSE base * Power(base, exp - 1)

\* 2u32.pow(exp)
Pow2u32(exp, checks) ==
    IF checks /\ Overflows32(Power(2, exp)) THEN Panic(MulOverflow)
    ELSE Return(Wrapping32(Power(2, exp)))

\* CardSet::nb_of_points_won_with_ruleset1: for card in self.cards.iter(),
\* from the i-th on.
RECURSIVE PointsLoop(_, _, _, _)
PointsLoop(card_set, i, nb_of_points_won, checks) ==
    IF i > Len(card_set) THEN Return(nb_of_points_won)
    ELSE LET nb_of_matching_numbers ==
                 Card_compute_nb_of_matching_numbers(card_set[i])
             nb_of_points_won_by_card ==
                 IF nb_of_matching_numbers > 0
                 THEN Pow2u32(nb_of_matching_numbers - 1, checks)
                 ELSE Return(0)
         IN  IF nb_of_points_won_by_card.panic # ""
             THEN nb_of_points_won_by_card
             ELSE LET sum == nb_of_points_won + nb_of_points_won_by_card.val[1]
                  IN  IF checks /\ Overflows32(sum) THEN Panic(AddOverflow)
                      ELSE PointsLoop(card_set, i + 1, Wrapping32(sum), checks)

CardSet_nb_of_points_won_with_ruleset1(card_set, checks) ==
    PointsLoop(card_set, 1, 0, checks)

\* The indexes (0-based) of the cards the card at current_card_index wins.
CardsIndexesWon(card_set, current_card_index, nb_of_matching_numbers) ==
    { current_card_index + i + 1 : i \in 0..(nb_of_matching_numbers - 1) }
        \cap 0..(Len(card_set) - 1)

\* CardSet::nb_of_cards_won_with_ruleset2: the loop over the cards, from
\* current_card_index (0-based) on.  nb_of_copy_of_cards is a function of
\* the 0-based index.
RECURSIVE CopiesLoop(_, _, _, _)
CopiesLoop(card_set, current_card_index, nb_of_copy_of_cards, checks) ==
    IF current_card_index >= Len(card_set) THEN Return(nb_of_copy_of_cards)
    ELSE LET nb_of_copy_of_current_card ==
                 nb_of_copy_of_cards[current_card_index]
             cards_indexes_won ==
                 CardsIndexesWon(
                     card_set, current_card_index,
                     Card_compute_nb_of_matching_numbers(
                         card_set[current_card_index + 1]))
         IN  IF checks /\ \E w \in cards_indexes_won :
                    Overflows32(nb_of_copy_of_cards[w]
                                    + nb_of_copy_of_current_card)
             THEN Panic(AddOverflow)
             ELSE CopiesLoop(
                      card_set, current_card_index + 1,
                      [w \in DOMAIN nb_of_copy_of_cards |->
                          IF w \in cards_indexes_won
                          THEN Wrapping32(nb_of_copy_of_cards[w]
                                              + nb_of_copy_of_current_card)
                          ELSE nb_of_copy_of_cards[w]],
                      checks)

\* nb_of_copy_of_cards.iter().sum(), from index i (0-based) on.
RECURSIVE SumLoop(_, _, _, _)
SumLoop(vec, i, sum, checks) ==
    IF i \notin DOMAIN vec THEN Return(sum)
    ELSE IF checks /\ Overflows32(sum + vec[i]) THEN Panic(AddOverflow)
    ELSE SumLoop(vec, i + 1, Wrapping32(sum + vec[i]), checks)

CardSet_nb_of_cards_won_with_ruleset2(card_set, checks) ==
    LET copies == CopiesLoop(card_set, 0,
                             [w \in 0..(Len(card_set) - 1) |-> 1], checks)
    IN  IF copies.panic # "" THEN copies
        ELSE SumLoop(copies.val[1], 0, 0, checks)

\* The cards of test_card_set.
TestCardSet ==
    << Card(1, <<41, 48, 83, 86, 17>>, <<83, 86, 6, 31, 17, 9, 48, 53>>),
       Card(2, <<13, 32, 20, 16, 61>>, <<61, 30, 68, 82, 17, 32, 24, 19>>),
       Card(3, <<1, 21, 53, 59, 44>>, <<69, 82, 63, 72, 16, 21, 14, 1>>),
       Card(4, <<41, 92, 73, 84, 69>>, <<59, 84, 76, 51, 58, 5, 54, 83>>),
       Card(5, <<87, 83, 26, 28, 32>>, <<88, 30, 70, 12, 93, 22, 82, 36>>),
       Card(6, <<31, 18, 13, 56, 72>>, <<74, 77, 10, 23, 35, 67, 36, 11>>) >>

\* Every card of a few numbers, repeated numbers included.
CardsUnderTest ==
    { Card(1, w, n) : w \in SeqsOf({1, 2}, 0, 2),
                      n \in SeqsOf({1, 2, 3}, 0, MaxNumbers) }
\* Cards of 0, 1, 2 and 3 matching numbers.
CardKinds ==
    { Card(0, <<41, 48>>, <<83, 86>>), Card(0, <<1, 2>>, <<2, 3>>),
      Card(0, <<1>>, <<1, 1>>), Card(0, <<1, 2, 3>>, <<3, 2, 1>>) }
\* A card of ten and a card of eleven matching numbers.
BigCards ==
    { Card(0, <<1>>, [i \in 1..n |-> 1]) : n \in {10, 11} }
\* Card i of the input has the id i.
WithIds(card_set) ==
    [i \in DOMAIN card_set |-> [card_set[i] EXCEPT !.id = i]]
CardSetsUnderTest ==
    {TestCardSet}
        \cup { <<c>> : c \in CardsUnderTest }
        \cup { WithIds(cs) : cs \in SeqsOf(CardKinds, 0, MaxCards) }
        \cup { WithIds([i \in 1..n |-> c]) :
                 n \in 1..MaxBigCards, c \in BigCards }

nb_of_points_won_with_ruleset1(checks) ==
    /\ pc = "card_set"
    /\ pc' = "points_won"
    /\ overflow_checks' = (IF checks THEN "on" ELSE "off")
    /\ outcome' = CardSet_nb_of_points_won_with_ruleset1(cards, checks)
    /\ UNCHANGED << day05, day06, day04, day01, day03 >>

nb_of_cards_won_with_ruleset2(checks) ==
    /\ pc = "card_set"
    /\ pc' = "cards_won"
    /\ overflow_checks' = (IF checks THEN "on" ELSE "off")
    /\ outcome' = CardSet_nb_of_cards_won_with_ruleset2(cards, checks)
    /\ UNCHANGED << day05, day06, day04, day01, day03 >>

InitCards ==
    /\ pc = "card_set"
    /\ cards \in CardSetsUnderTest
    /\ Day05Idle /\ Day06Idle /\ Day01Idle /\ Day03Idle
    /\ overflow_checks = "unknown"
    /\ outcome = NotCalled

NextCards ==
    \/ \E checks \in BOOLEAN : nb_of_points_won_with_ruleset1(checks)
    \/ \E checks \in BOOLEAN : nb_of_cards_won_with_ruleset2(checks)

SpecCards == InitCards /\ [][NextCards]_vars

(***************************************************************************)
(* Day 01, "Trebuchet?!" (src/day01/src/main.rs).  A line is a sequence    *)
(* of characters and a character a string.  The program walks the          *)
(* characters (line.chars().enumerate()) and cuts the line by bytes        *)
(* (&line[index..index + digit_name.len()], line.len()), so the model      *)
(* keeps the UTF-8 length of every character.                              *)
(***************************************************************************)
\* Longest arbitrary line, in characters.
MaxLineLen == 4

\* A character of two bytes in UTF-8, U+00E9; every other character of the
\* model is ASCII.
EAcute == "U+00E9"
len_utf8(character) == IF character = EAcute THEN 2 ELSE 1

DecimalDigits == <<"0", "1", "2", "3", "4", "5", "6", "7", "8", "9">>
\* character.is_digit(10)
is_digit(character) == \E d \in 1..10 : DecimalDigits[d] = character
\* character.to_digit(10), for a decimal digit.
to_digit(character) ==
    (CHOOSE d \in 1..10 : DecimalDigits[d] = character) - 1

\* The bytes of the first n characters of line.
RECURSIVE ByteOffset(_, _)
ByteOffset(line, n) ==
    IF n = 0 THEN 0 ELSE ByteOffset(line, n - 1) + len_utf8(line[n])

\* line.len(): in bytes.
str_len(line) == ByteOffset(line, Len(line))

\* line.is_char_boundary(index)
is_char_boundary(line, index) ==
    \E n \in 0..Len(line) : ByteOffset(line, n) = index

NotACharBoundary == "byte index is not a char boundary"

\* &line[begin..end], begin <= end <= line.len(): the characters between
\* the two byte indexes, and a panic when one of them falls inside a
\* character.
Slice(line, begin, end) ==
    IF ~is_char_boundary(line, begin) \/ ~is_char_boundary(line, end)
    THEN Panic(NotACharBoundary)
    ELSE LET first_char ==
                 (CHOOSE n \in 0..Len(line) : ByteOffset(line, n) = begin) + 1
             last_char ==
                 CHOOSE n \in 0..Len(line) : ByteOffset(line, n) = end
         IN  Return(SubSeq(line, first_char, last_char))

\* The static map DIGITS.  No name is the start of another, so that at
\* most one entry matches at an index and the order of entries() does not
\* show.
DIGITS ==
    << [digit_name |-> <<"z", "e", "r", "o">>, digit_value |-> 0],
       [digit_name |-> <<"o", "n", "e">>, digit_value |-> 1],
       [digit_name |-> <<"t", "w", "o">>, digit_value |-> 2],
       [digit_name |-> <<"t", "h", "r", "e", "e">>, digit_value |-> 3],
       [digit_name |-> <<"f", "o", "u", "r">>, digit_value |-> 4],
       [digit_name |-> <<"f", "i", "v", "e">>, digit_value |-> 5],
       [digit_name |-> <<"s", "i", "x">>, digit_value |-> 6],
       [digit_name |-> <<"s", "e", "v", "e", "n">>, digit_value |-> 7],
       [digit_name |-> <<"e", "i", "g", "h", "t">>, digit_value |-> 8],
       [digit_name |-> <<"n", "i", "n", "e">>, digit_value |-> 9] >>
\* for (digit_name, digit_value) in DIGITS.entries(), from the k-th entry
\* on, at the character index (0-based) of the line.
RECURSIVE DigitNamesLoop(_, _, _, _)
DigitNamesLoop(line, index, k, current_digit) ==
    IF k > Len(DIGITS) THEN Return(current_digit)
    ELSE LET digit_name == DIGITS[k].digit_name IN
         IF index + Len(digit_name) <= str_len(line)
         THEN LET slice == Slice(line, index, index + Len(digit_name)) IN
              IF slice.panic # "" THEN slice
              ELSE DigitNamesLoop(
                       line, index, k + 1,
                       IF slice.val[1] = digit_name
                       THEN Some(DIGITS[k].digit_value) ELSE current_digit)
         ELSE DigitNamesLoop(line, index, k + 1, current_digit)

\* The digit found at the character index (0-based) of the line, if any.
CurrentDigit(line, index, mode) ==
    LET character == line[index + 1] IN
    IF is_digit(character) THEN Return(Some(to_digit(character)))
    ELSE IF mode = "DigitAndName" THEN DigitNamesLoop(line, index, 1, None)
    ELSE Return(None)

\* A slip the last lines of the function could have made: the two digits
\* the other way round.
CalibrationValue_LastThenFirst(first, last) ==
    IF first # None /\ last # None THEN last[1] * 10 + first[1] ELSE 0

\* match (first, last) { (Some(f), Some(l)) => f * 10 + l, _ => 0 }
CalibrationValue(first, last) ==
    IF first # None /\ last # None THEN first[1] * 10 + last[1] ELSE 0

\* for (index, character) in line.chars().enumerate(), from index on.
RECURSIVE CharactersLoop(_, _, _, _, _)
CharactersLoop(line, index, mode, first, last) ==
    IF index >= Len(line) THEN Return(CalibrationValue(first, last))
    ELSE LET current_digit == CurrentDigit(line, index, mode) IN
         IF current_digit.panic # "" THEN current_digit
         ELSE IF current_digit.val[1] # None
         THEN CharactersLoop(line, index + 1, mode,
                             IF first = None THEN current_digit.val[1]
                             ELSE first,
                             current_digit.val[1])
         ELSE CharactersLoop(line, index + 1, mode, first, last)

Trebuchet_identify_calibration_value_single_line(line, mode) ==
    CharactersLoop(line, 0, mode, None, None)

\* identify_calibration_values: for line in input_stream.lines(), from the
\* i-th line on.
RECURSIVE LinesLoop(_, _, _, _)
LinesLoop(lines, i, mode, calibration_values) ==
    IF i > Len(lines) THEN Return(calibration_values)
    ELSE LET calibration_value ==
                 Trebuchet_identify_calibration_value_single_line(
                     lines[i], mode)
         IN  IF calibration_value.panic # "" THEN calibration_value
             ELSE LinesLoop(lines, i + 1, mode,
                            Append(calibration_values,
                                   calibration_value.val[1]))

Trebuchet_identify_calibration_values(lines, mode) ==
    LinesLoop(lines, 1, mode, <<>>)

\* The inputs of test_digits_only and of test_digits_and_names.
TestDigitsOnly ==
    << <<"1", "a", "b", "c", "2">>,
       <<"p", "q", "r", "3", "s", "t", "u", "8", "v", "w", "x">>,
       <<"a", "1", "b", "2", "c", "3", "d", "4", "e", "5", "f">>,
       <<"t", "r", "e", "b", "7", "u", "c", "h", "e", "t">> >>
TestDigitsAndNames ==
    << <<"t", "w", "o", "1", "n", "i", "n", "e">>,
       <<"e", "i", "g", "h", "t", "w", "o", "t", "h", "r", "e", "e">>,
       <<"a", "b", "c", "o", "n", "e", "2", "t", "h", "r", "e", "e", "x",
         "y", "z">>,
       <<"x", "t", "w", "o", "n", "e", "3", "f", "o", "u", "r">>,
       <<"4", "n", "i", "n", "e", "e", "i", "g", "h", "t", "s", "e", "v",
         "e", "n", "2">>,
       <<"z", "o", "n", "e", "i", "g", "h", "t", "2", "3", "4">>,
       <<"7", "p", "q", "r", "s", "t", "s", "i", "x", "t", "e", "e", "n">> >>
\* The characters arbitrary lines are made of: the letters of "one" and
\* "two", a digit and a character of two bytes.
Characters == {"o", "n", "e", "t", "w", "1", EAcute}
\* Lines of names that overlap, and a name behind a character of two bytes.
OverlappingNames ==
    { <<"t", "w", "o", "n", "e">>,
      <<"e", "i", "g", "h", "t", "w", "o">>,
      <<"o", "n", "e", "i", "g", "h", "t">>,
      <<EAcute, "o", "n", "e">> }
LinesUnderTest ==
    SeqsOf(Characters, 0, MaxLineLen)
        \cup OverlappingNames
        \cup { TestDigitsOnly[i] : i \in 1..Len(TestDigitsOnly) }
        \cup { TestDigitsAndNames[i] : i \in 1..Len(TestDigitsAndNames) }
DocumentsUnderTest ==
    { <<line>> : line \in LinesUnderTest }
        \cup {<<>>, TestDigitsOnly, TestDigitsAndNames}
        \cup { <<a, b>> : a \in SeqsOf({"o", "n", "e", "2"}, 0, 4),
                          b \in {<<>>, <<"7">>, <<"x">>, <<"4", "a", "5">>} }

identify_calibration_value_single_line(mode) ==
    /\ pc = "document"
    /\ Len(document) = 1
    /\ pc' = "line_identified"
    /\ identification_mode' = mode
    /\ outcome' =
          Trebuchet_identify_calibration_value_single_line(document[1], mode)
    /\ UNCHANGED << day05, day06, day04, day03, document, overflow_checks >>

identify_calibration_values(mode) ==
    /\ pc = "document"
    /\ pc' = "values_identified"
    /\ identification_mode' = mode
    /\ outcome' = Trebuchet_identify_calibration_values(document, mode)
    /\ UNCHANGED << day05, day06, day04, day03, document, overflow_checks >>

InitTrebuchet ==
    /\ pc = "document"
    /\ document \in DocumentsUnderTest
    /\ identification_mode = "Digit"
    /\ Day05Idle /\ Day06Idle /\ Day04Idle /\ Day03Idle
    /\ overflow_checks = "unknown"
    /\ outcome = NotCalled

NextTrebuchet ==
    \/ \E mode \in {"Digit", "DigitAndName"} :
          identify_calibration_value_single_line(mode)
    \/ \E mode \in {"Digit", "DigitAndName"} :
          identify_calibration_values(mode)

SpecTrebuchet == InitTrebuchet /\ [][NextTrebuchet]_vars

(***************************************************************************)
(* Day 03, "Gear Ratios" (src/day03/src/main.rs).  The input is a list of  *)
(* lines of characters; ids, positions and lengths are u32.                *)
(***************************************************************************)
\* Longest row and most rows of an arbitrary schematic.
MaxRowLen == 3
MaxRows == 2

\* enum SchematicPart
Nothing == [part |-> "Nothing", c |-> "."]
Symbol(c) == [part |-> "Symbol", c |-> c]
PartialPartId(c) == [part |-> "PartialPartId", c |-> c]

Position(x, y) == [x |-> x, y |-> y]
PartId(id, position, length) ==
    [id |-> id, position |-> position, length |-> length]

\* Schematic::build_map: the part of one character, and the map of the
\* lines.
SchematicPartOf(c) ==
    IF c = "." THEN Nothing
    ELSE IF is_digit(c) THEN PartialPartId(c)
    ELSE Symbol(c)

Schematic_build_map(lines) ==
    [y \in 1..Len(lines) |->
        [x \in 1..Len(lines[y]) |-> SchematicPartOf(lines[y][x])]]

\* id.id * 10 + c.to_digit(10)
NextId(id, c, checks) ==
    IF checks /\ Overflows32(id * 10) THEN Panic(MulOverflow)
    ELSE LET sum == Wrapping32(id * 10) + to_digit(c) IN
         IF checks /\ Overflows32(sum) THEN Panic(AddOverflow)
         ELSE Return(Wrapping32(sum))

\* Schematic::identify_part_ids, the loop over one row: from the cell x
\* (0-based) of the row y (0-based) on, with the current_part_id and the
\* part_ids pushed so far.
RECURSIVE RowLoop(_, _, _, _, _, _)
RowLoop(row, y, x, current_part_id, part_ids, checks) ==
    IF x >= Len(row)
    THEN Return(IF current_part_id # None
                THEN Append(part_ids, current_part_id[1]) ELSE part_ids)
    ELSE LET part == row[x + 1] IN
         IF part.part = "PartialPartId"
         THEN IF current_part_id = None
              THEN RowLoop(row, y, x + 1,
                           Some(PartId(to_digit(part.c), Position(x, y), 1)),
                           part_ids, checks)
              ELSE LET id == current_part_id[1]
                       next_id == NextId(id.id, part.c, checks)
                   IN  IF next_id.panic # "" THEN next_id
                       ELSE RowLoop(row, y, x + 1,
                                    Some(PartId(next_id.val[1], id.position,
                                                id.length + 1)),
                                    part_ids, checks)
         ELSE IF current_part_id # None
              THEN RowLoop(row, y, x + 1, None,
                           Append(part_ids, current_part_id[1]), checks)
              ELSE RowLoop(row, y, x + 1, None, part_ids, checks)

\* for (y, row) in self.map.iter().enumerate(), from the row y on.
RECURSIVE RowsLoop(_, _, _, _)
RowsLoop(map, y, part_ids, checks) ==
    IF y >= Len(map) THEN Return(part_ids)
    ELSE LET row_part_ids == RowLoop(map[y + 1], y, 0, None, part_ids, checks)
         IN  IF row_part_ids.panic # "" THEN row_part_ids
             ELSE RowsLoop(map, y + 1, row_part_ids.val[1], checks)

Schematic_identify_part_ids(map, checks) == RowsLoop(map, 0, <<>>, checks)

(***************************************************************************)
(* PartId::scan_adjacent_symbols.  The coordinates are i32 there: a u32    *)
(* above the largest i32 is cast to a negative number, and a sum that      *)
(* leaves i32 panics or wraps as one of u32 does.                          *)
(***************************************************************************)
I32Max == (U32Max - 1) \div 2
as_i32(n) == IF n > I32Max THEN n - (U32Max + 1) ELSE n
OverflowsI32(n) == n > I32Max \/ n < -I32Max - 1
WrappingI32(n) == ((n + I32Max + 1) % (U32Max + 1)) - I32Max - 1
AddI32(a, b, checks) ==
    IF checks /\ OverflowsI32(a + b) THEN Panic(AddOverflow)
    ELSE Return(WrappingI32(a + b))

SymbolInformations(symbol, position) ==
    [symbol |-> symbol, position |-> position]

IndexOutOfBounds == "index out of bounds"
\* schematic.map[y]: a panic outside the map.
RowAt(map, y) ==
    IF y \in 0..(Len(map) - 1) THEN Return(map[y + 1])
    ELSE Panic(IndexOutOfBounds)
\* schematic.map[y][x]: a panic outside the map or outside the row.
PartAt(map, y, x) ==
    IF y \in 0..(Len(map) - 1) /\ x \in 0..(Len(map[y + 1]) - 1)
    THEN Return(map[y + 1][x + 1])
    ELSE Panic(IndexOutOfBounds)

\* A slip the scan could have made: the column right of the part left out.
ColumnsEnd_WithoutTheRight(length, checks) == Return(as_i32(length))

\* self.length as i32 + 1: the end, excluded, of the range of x.
ColumnsEnd(length, checks) == AddI32(as_i32(length), 1, checks)

\* The body of the two loops for one x and one y: the symbols with the
\* symbol of the scanned cell pushed, if it is in bounds and holds one.
ScanCell(self, map, x, y, symbols, checks) ==
    LET current_x_scanned == AddI32(as_i32(self.position.x), x, checks)
        current_y_scanned == AddI32(as_i32(self.position.y), y, checks)
    IN  IF current_x_scanned.panic # "" THEN current_x_scanned
        ELSE IF current_y_scanned.panic # "" THEN current_y_scanned
        ELSE LET cx == current_x_scanned.val[1]
                 cy == current_y_scanned.val[1]
             IN  IF ~(cy >= 0 /\ cy < Len(map) /\ cx >= 0)
                 THEN Return(symbols)
                 ELSE LET row == RowAt(map, cy) IN
                      IF row.panic # "" THEN row
                      ELSE IF ~(cx < Len(row.val[1])) THEN Return(symbols)
                      ELSE LET part == PartAt(map, cy, cx) IN
                           IF part.panic # "" THEN part
                           ELSE IF part.val[1].part = "Symbol"
                           THEN Return(Append(
                                    symbols,
                                    SymbolInformations(part.val[1].c,
                                                       Position(cx, cy))))
                           ELSE Return(symbols)

\* for x in -1..end_x { for y in -1..2 { ... } }, from x and y on.
RECURSIVE ScanLoop(_, _, _, _, _, _, _)
ScanLoop(self, map, x, end_x, y, symbols, checks) ==
    IF x >= end_x THEN Return(symbols)
    ELSE IF y >= 2 THEN ScanLoop(self, map, x + 1, end_x, -1, symbols, checks)
    ELSE LET scanned == ScanCell(self, map, x, y, symbols, checks) IN
         IF scanned.panic # "" THEN scanned
         ELSE ScanLoop(self, map, x, end_x, y + 1, scanned.val[1], checks)

PartId_scan_adjacent_symbols(self, map, checks) ==
    LET end_x == ColumnsEnd(self.length, checks) IN
    IF end_x.panic # "" THEN end_x
    ELSE ScanLoop(self, map, -1, end_x.val[1], -1, <<>>, checks)

\* The input of identify_part_ids_and_scan_adjacent_symbols.
TestSchematic ==
    << <<"4", "6", "7", ".", ".", "1", "1", "4", ".", ".">>,
       <<".", ".", ".", "*", ".", ".", ".", ".", ".", ".">>,
       <<".", ".", "3", "5", ".", ".", "6", "3", "3", ".">>,
       <<".", ".", ".", ".", ".", ".", "#", ".", ".", ".">> >>
\* Rows of one run of digits: the ids around the end of u32.
DigitRows ==
    { <<"1", "0", "2", "3">>, <<"1", "0", "2", "4">>,
      <<"9", "9", "9", "9">>, <<".", "1", "0", "3", "0">> }
RowsUnderTest == SeqsOf({".", "*", "7"}, 0, MaxRowLen)
\* A part between two rows of symbols and blanks, of any lengths up to one
\* more than its own row.
SurroundedParts ==
    { <<above, <<left, "7", right>>, below>> :
        above \in SeqsOf({".", "*"}, 0, MaxRowLen + 1),
        below \in SeqsOf({".", "*"}, 0, MaxRowLen + 1),
        left \in {".", "#"}, right \in {".", "#", "7"} }
SchematicsUnderTest ==
    SeqsOf(RowsUnderTest, 0, MaxRows)
        \cup {TestSchematic}
        \cup { <<row>> : row \in DigitRows }
        \cup SurroundedParts

identify_part_ids(checks) ==
    /\ pc = "schematic"
    /\ pc' = "part_ids_identified"
    /\ overflow_checks' = (IF checks THEN "on" ELSE "off")
    /\ outcome' = Schematic_identify_part_ids(schematic, checks)
    /\ UNCHANGED << day05, day06, day04, day01, day03 >>

\* solve_part1, solve_part2: for part_id in part_ids, the i-th of the
\* part ids identified is scanned, in the same build.
scan_adjacent_symbols(i) ==
    /\ pc = "part_ids_identified"
    /\ outcome.panic = ""
    /\ i \in 1..Len(outcome.val[1])
    /\ pc' = "symbols_scanned"
    /\ call' = [fn |-> "PartId::scan_adjacent_symbols",
                self |-> outcome.val[1][i],
                ret |-> PartId_scan_adjacent_symbols(
                            outcome.val[1][i], schematic,
                            overflow_checks = "on")]
    /\ UNCHANGED << line_itr, seed_parsing_mode, seeds, transformation_maps,
                    transformations, outcome, overflow_checks,
                    day06, day04, day01, day03 >>

InitSchematic ==
    /\ pc = "schematic"
    /\ schematic \in { Schematic_build_map(lines) :
                         lines \in SchematicsUnderTest }
    /\ Day05Idle /\ Day06Idle /\ Day04Idle /\ Day01Idle
    /\ overflow_checks = "unknown"
    /\ outcome = NotCalled

\* Most part ids of a schematic under test.
MaxPartIds == 6

NextSchematic ==
    \/ \E checks \in BOOLEAN : identify_part_ids(checks)
    \/ \E i \in 1..MaxPartIds : scan_adjacent_symbols(i)

SpecSchematic == InitSchematic /\ [][NextSchematic]_vars

(***************************************************************************)
(* The words of the claims, over the integers (no width).                  *)
(***************************************************************************)
\* v lies in the source interval [source_start_range, + source_range) of t.
InSourceInterval(t, v) ==
    /\ t.source_start_range <= v
    /\ v < t.source_start_range + t.source_range

\* destinationStart + (v - sourceStart).
OffsetImage(t, v) == t.destination_category + (v - t.source_start_range)

\* The source intervals of a and b share a value.
SourcesOverlap(a, b) ==
    /\ a.source_range > 0 /\ b.source_range > 0
    /\ a.source_start_range < b.source_start_range + b.source_range
    /\ b.source_start_range < a.source_start_range + a.source_range

\* No value lies in the source intervals of two rules of the map.
DisjointSources(ts) ==
    \A i \in 1..Len(ts), j \in 1..Len(ts) :
        i # j => ~SourcesOverlap(ts[i], ts[j])

\* The piece of the layer that handles v: the first rule whose source
\* interval holds v, or 0 (the identity) when none does.
PieceOf(ts, v) ==
    IF \E i \in 1..Len(ts) : InSourceInterval(ts[i], v)
    THEN CHOOSE i \in 1..Len(ts) :
             /\ InSourceInterval(ts[i], v)
             /\ \A j \in 1..(i - 1) : ~InSourceInterval(ts[j], v)
    ELSE 0

\* The value a layer sends v to.
LayerImage(ts, v) ==
    IF PieceOf(ts, v) = 0 THEN v ELSE OffsetImage(ts[PieceOf(ts, v)], v)

\* v passed through every layer, layer 1 first and layer N last.
RECURSIVE PipelineImage(_, _)
PipelineImage(maps, v) ==
    IF maps = <<>> THEN v
    ELSE LayerImage(maps[Len(maps)],
                    PipelineImage(SubSeq(maps, 1, Len(maps) - 1), v))

\* Every value of every seed range [start, start + length).
SeedValues(seedset) ==
    UNION { r.start .. (r.start + r.length - 1) : r \in seedset }

Minimum(S) == CHOOSE m \in S : \A x \in S : m <= x

\* The rules of ts in another order.
RuleOrders(ts) ==
    { [i \in 1..Len(ts) |-> ts[p[i]]] :
        p \in { q \in [1..Len(ts) -> 1..Len(ts)] :
                  \A i \in 1..Len(ts), j \in 1..Len(ts) : i # j => q[i] # q[j] } }

MapCalled == call.fn = "TransformationMap::apply_transformation"
RuleCalled == call.fn = "Transformation::apply_transformation"

(***************************************************************************)
(* C1.  For every almanac with a non-empty seed set, the evaluation        *)
(* returns the minimum, over every value of every seed range, of the       *)
(* value passed through every map in the order given; on the input of      *)
(* test_transformation_one_seed in OneSeed mode this is 52.                *)
(***************************************************************************)
C1_ReturnsMinimumOverSeedValues ==
    pc = "evaluated" /\ seeds # {} =>
        /\ SeedValues(seeds) # {}
        /\ outcome = Return(Minimum({ PipelineImage(transformation_maps, v) :
                                        v \in SeedValues(seeds) }))
        /\ line_itr.given /\ seed_parsing_mode = "OneSeed"
              => outcome = Return(52)

(***************************************************************************)
(* C2.  A rule applied to a value of its source interval yields            *)
(* destinationStart + (v - sourceStart), and applied to a value outside    *)
(* it yields None; so the layer of the one rule (dest 50, src 98, len 2)   *)
(* sends 97, 98, 99 to 97, 50, 51.                                         *)
(***************************************************************************)
C2_RuleIsOffsetOnItsInterval ==
    /\ RuleCalled =>
          \A v \in DOMAIN call.ret :
              LET t == MapUnderTest[call.rule] IN
              IF InSourceInterval(t, v)
              THEN call.ret[v] = Return(Some(OffsetImage(t, v)))
              ELSE call.ret[v] = Return(None)
    /\ MapCalled /\ MapUnderTest = <<Transformation(50, 98, 2)>> =>
          \A v \in DOMAIN call.ret \cap {97, 98, 99} :
              call.ret[v] = Return(CASE v = 97 -> 97 [] v = 98 -> 50
                                     [] v = 99 -> 51)

(***************************************************************************)
(* C3.  A map applied to a value that lies in the source interval of none  *)
(* of its rules (a map with no rules included) returns the value           *)
(* unchanged.                                                              *)
(***************************************************************************)
C3_UncoveredValueUnchanged ==
    MapCalled =>
        \A v \in DOMAIN call.ret :
            PieceOf(MapUnderTest, v) = 0 => call.ret[v] = Return(v)

\* A value right past the end of the source interval of a rule of the map,
\* covered by no rule, came back as it was.
C3_Witness ==
    /\ MapCalled
    /\ \E v \in DOMAIN call.ret :
          /\ PieceOf(MapUnderTest, v) = 0
          /\ \E i \in 1..Len(MapUnderTest) :
                /\ MapUnderTest[i].source_range > 0
                /\ v = MapUnderTest[i].source_start_range
                          + MapUnderTest[i].source_range
          /\ call.ret[v] = Return(v)

(***************************************************************************)
(* C4.  A map whose rules have overlapping source intervals is never       *)
(* built: construction fails instead of resolving the overlap by the       *)
(* order of the rules.                                                     *)
(***************************************************************************)
C4_OverlappingRulesRejected ==
    pc \in {"built", "evaluated"} =>
        \A i \in 1..Len(transformation_maps) :
            DisjointSources(transformation_maps[i])

(***************************************************************************)
(* C5.  The order of the rules of a map does not change what the map       *)
(* returns: every order of the rules returns the same on every value.      *)
(***************************************************************************)
C5_RuleOrderInsignificant ==
    MapCalled =>
        \A ts \in RuleOrders(MapUnderTest), v \in DOMAIN call.ret :
            TransformationMap_apply_transformation(
                ts, v, overflow_checks = "on") = call.ret[v]

(***************************************************************************)
(* C6.  As claimed: a map whose rules have pairwise disjoint source        *)
(* intervals never sends two distinct input values to the same output      *)
(* value.                                                                  *)
(***************************************************************************)
C6_OutputsNeverShareAValue ==
    MapCalled /\ DisjointSources(MapUnderTest) =>
        \A v \in DOMAIN call.ret, w \in DOMAIN call.ret :
            v # w /\ call.ret[v].panic = "" /\ call.ret[w].panic = ""
                => call.ret[v].val # call.ret[w].val

(***************************************************************************)
(* C6, amended.  A map whose rules have pairwise disjoint source           *)
(* intervals never sends to the same output value two distinct input       *)
(* values handled by the same piece of the layer (the same rule, or the    *)
(* identity for both).                                                     *)
(***************************************************************************)
C6_SamePieceOutputsNeverShareAValue ==
    MapCalled /\ DisjointSources(MapUnderTest) =>
        \A v \in DOMAIN call.ret, w \in DOMAIN call.ret :
            /\ v # w
            /\ PieceOf(MapUnderTest, v) = PieceOf(MapUnderTest, w)
            /\ call.ret[v].panic = "" /\ call.ret[w].panic = ""
            => call.ret[v].val # call.ret[w].val

\* Two values of the source interval of one rule went through a map of
\* disjoint rules and came out apart.
C6_Witness ==
    /\ MapCalled
    /\ DisjointSources(MapUnderTest)
    /\ \E v \in DOMAIN call.ret, w \in DOMAIN call.ret :
          /\ v # w
          /\ PieceOf(MapUnderTest, v) # 0
          /\ PieceOf(MapUnderTest, v) = PieceOf(MapUnderTest, w)
          /\ call.ret[v].panic = "" /\ call.ret[w].panic = ""
          /\ call.ret[v].val # call.ret[w].val

(***************************************************************************)
(* C7.  The evaluation of an almanac without seed ranges ends in an error  *)
(* of its own: not in a number, and not in what the evaluation of another  *)
(* almanac ends in.                                                        *)
(***************************************************************************)
C7_EmptySeedSetHasItsOwnError ==
    pc = "evaluated" =>
        /\ seeds = {} => outcome.panic # ""
        /\ outcome = Almanac_apply_transformations_and_keep_lower_result(
                         {}, transformation_maps, overflow_checks = "on")
              => seeds = {}

(***************************************************************************)
(* C8.  An almanac without maps is evaluated to the smallest value of its  *)
(* seed ranges: the smallest start of a seed range that is not empty.      *)
(***************************************************************************)
C8_NoMapsGivesSmallestSeed ==
    pc = "evaluated" /\ transformation_maps = <<>>
        /\ (\E r \in seeds : r.length > 0)
        => outcome = Return(Minimum({ r.start : r \in { q \in seeds : q.length > 0 } }))

(***************************************************************************)
(* C9.  A rule line that misses a field, has a field that is no number or  *)
(* has length 0 makes the construction fail: unless the run has panicked,  *)
(* no rule read so far has length 0 (a Transformation holds three u64 by   *)
(* its type), and Transformation::from panics on a line of another shape.  *)
(***************************************************************************)
C9_MalformedRuleRejected ==
    /\ \A line \in MalformedLines : Transformation_from(line).panic # ""
    /\ pc # "panicked" =>
          /\ \A j \in 1..Len(transformations) :
                transformations[j].source_range > 0
          /\ \A i \in 1..Len(transformation_maps) :
                \A j \in 1..Len(transformation_maps[i]) :
                    transformation_maps[i][j].source_range > 0

(***************************************************************************)
(* C10.  Where a map header is expected, from_input_stream returns the     *)
(* almanac only at the end of the input: a line there that is no header    *)
(* makes it fail, never return the maps read so far.                       *)
(***************************************************************************)
C10_NoTruncatedAlmanac ==
    [][pc = "map_header" /\ pc' = "built" => line_itr'.ended]_vars

(***************************************************************************)
(* The numbers n0..n(k-1) of the seeds line of the input (here 1-based),   *)
(* and the runs in which from_input_stream returned an almanac: those      *)
(* that ended in a number or in a panic of the evaluation.                 *)
(***************************************************************************)
SeedsLineNumbers == Tail(line_itr.rest[1].toks)
Constructed(o) == o # NotCalled /\ o.panic \in {"", AddOverflow, UnwrapNone}

(***************************************************************************)
(* C11.  For every seeds line with the numbers n0..n(k-1), OneSeed mode    *)
(* builds exactly the ranges (start ni, length 1) and SeedRange mode       *)
(* exactly the ranges (start n(2j), length n(2j+1)) with 2j+1 < k, a       *)
(* trailing unpaired number giving no range; and the two modes build the   *)
(* same transformation maps.                                               *)
(***************************************************************************)
C11_SeedInterpretation ==
    pc = "part2_solved" =>
        LET n == SeedsLineNumbers
            k == Len(n)
        IN  /\ Constructed(call.ret.outcome) =>
                  call.ret.seeds = { SeedRange(n[i + 1], 1) : i \in 0..(k - 1) }
            /\ Constructed(outcome) =>
                  seeds = { SeedRange(n[2 * j + 1], n[2 * j + 2]) :
                              j \in { i \in 0..k : 2 * i + 1 < k } }
            /\ Constructed(call.ret.outcome) <=> Constructed(outcome)
            /\ Constructed(outcome) =>
                  call.ret.transformation_maps = transformation_maps

\* Both parts built their almanac from a seeds line of three numbers, the
\* third unpaired, and at least one map.
C11_Witness ==
    /\ pc = "part2_solved"
    /\ Constructed(call.ret.outcome) /\ Constructed(outcome)
    /\ Len(SeedsLineNumbers) = 3
    /\ Cardinality(call.ret.seeds) = 3
    /\ Cardinality(seeds) = 1
    /\ transformation_maps # <<>>

(***************************************************************************)
(* C12.  Every seed range of a constructed almanac has length > 0, in      *)
(* both modes and for every accepted seeds line.                           *)
(***************************************************************************)
C12_SeedRangesNotEmpty ==
    pc \in {"built", "evaluated"} => \A r \in seeds : r.length > 0

\* Two seed ranges share a value.
SeedRangesOverlap(a, b) ==
    /\ a.length > 0 /\ b.length > 0
    /\ a.start < b.start + b.length
    /\ b.start < a.start + a.length

(***************************************************************************)
(* C13.  The seed ranges of a constructed almanac are pairwise disjoint:   *)
(* no two of them share a value, whatever the pairs of the seeds line.     *)
(***************************************************************************)
C13_SeedRangesDisjoint ==
    pc \in {"built", "evaluated"} =>
        \A a \in seeds, b \in seeds : a # b => ~SeedRangesOverlap(a, b)

\* The most rules a layer has.
RECURSIVE MostRules(_)
MostRules(maps) ==
    IF maps = <<>> THEN 0
    ELSE LET m == MostRules(Tail(maps)) IN
         IF Len(Head(maps)) > m THEN Len(Head(maps)) ELSE m

(***************************************************************************)
(* C14.  The layer applications of an evaluation that returns are at most  *)
(* (seed ranges) x (layers) x (pieces a layer cuts a range into, one more  *)
(* than its rules): a bound without the lengths of the seed ranges.        *)
(***************************************************************************)
C14_WorkIndependentOfRangeLength ==
    pc = "evaluated" /\ outcome.panic = "" =>
        NbOfLayerApplications(SeedsIter(seeds), 1, transformation_maps)
            <= Cardinality(seeds) * Len(transformation_maps)
                   * (MostRules(transformation_maps) + 1)

(***************************************************************************)
(* C15.  Race::compute_nb_of_faster_solutions returns, for every race of   *)
(* time T and record distance D, the number of hold times h, 1 <= h < T,   *)
(* with h x (T - h) > D, a hold time that only equals the record not       *)
(* counted; 4 for the race of 7 ms and 9 mm.                               *)
(***************************************************************************)
C15_CountsHoldTimesBeatingTheRecord ==
    pc = "race_computed" =>
        /\ outcome =
              Return(Cardinality({ h \in 1..(race.time - 1) :
                                     h * (race.time - h) > race.distance }))
        /\ race = Race(7, 9) => outcome = Return(4)

\* The entries of the numbers of a card that occur among its winning
\* numbers.
MatchingEntries(card) ==
    Cardinality({ i \in 1..Len(card.numbers) :
                    \E j \in 1..Len(card.winning_numbers) :
                        card.winning_numbers[j] = card.numbers[i] })

\* The instances held of the card at index i (1-based) at the end of the
\* play: the one of the start and one for every instance of an earlier card
\* whose matching numbers reach i.
RECURSIVE Instances(_, _)
Instances(card_set, i) ==
    LET winners == { j \in 1..(i - 1) : i <= j + MatchingEntries(card_set[j]) }
        held[j \in 0..(i - 1)] ==
            IF j = 0 THEN 0
            ELSE held[j - 1]
                     + (IF j \in winners THEN Instances(card_set, j) ELSE 0)
    IN  1 + held[i - 1]

RECURSIVE SumUpTo(_, _)
SumUpTo(f, n) == IF n = 0 THEN 0 ELSE f[n] + SumUpTo(f, n - 1)

(***************************************************************************)
(* C16.  CardSet::nb_of_cards_won_with_ruleset2 returns the card           *)
(* instances held at the end of the play that starts with one instance of  *)
(* each card, every instance of card i with m matching numbers winning     *)
(* one instance of each of the cards i+1..i+m that exist; 30 for the six   *)
(* cards of the example.                                                   *)
(***************************************************************************)
C16_Ruleset2CountsInstancesHeld ==
    pc = "cards_won" =>
        /\ outcome =
              Return(SumUpTo([i \in 1..Len(cards) |-> Instances(cards, i)],
                             Len(cards)))
        /\ cards = TestCardSet => outcome = Return(30)

\* The points of a card of m matching numbers.
Points(m) == IF m > 0 THEN Power(2, m - 1) ELSE 0

(***************************************************************************)
(* C17.  CardSet::nb_of_points_won_with_ruleset1 returns the sum over the  *)
(* cards of 2^(m-1) for m > 0 and of 0 for m = 0, m being what             *)
(* Card::compute_nb_of_matching_numbers returns: the number of entries of  *)
(* the numbers of the card that occur among its winning numbers (4 for     *)
(* card 1 of the example, 13 points for its six cards).                    *)
(***************************************************************************)
C17_Ruleset1SumsPowersOfTwo ==
    pc = "points_won" =>
        /\ \A i \in 1..Len(cards) :
              Card_compute_nb_of_matching_numbers(cards[i])
                  = MatchingEntries(cards[i])
        /\ outcome =
              Return(SumUpTo([i \in 1..Len(cards) |->
                                Points(MatchingEntries(cards[i]))],
                             Len(cards)))
        /\ cards = TestCardSet =>
              /\ Card_compute_nb_of_matching_numbers(cards[1]) = 4
              /\ outcome = Return(13)

\* The digit name k starts at the position p (1-based) of the line.
NameStartsAt(line, p, k) ==
    LET name == DIGITS[k].digit_name IN
    /\ p + Len(name) - 1 <= Len(line)
    /\ SubSeq(line, p, p + Len(name) - 1) = name

\* The positions of the line where a digit stands: a decimal digit
\* character or, with names, the start of a spelled-out digit name.
DigitPositions(line, with_names) ==
    { p \in 1..Len(line) :
        \/ is_digit(line[p])
        \/ with_names /\ \E k \in 1..Len(DIGITS) : NameStartsAt(line, p, k) }

\* The digit that stands at such a position.
DigitAt(line, p) ==
    IF is_digit(line[p]) THEN to_digit(line[p])
    ELSE DIGITS[CHOOSE k \in 1..Len(DIGITS) :
                    NameStartsAt(line, p, k)].digit_value

\* 10 x first + last over the digits of the line in position order, and 0
\* for a line without any.
FirstAndLast(line, with_names) ==
    LET positions == DigitPositions(line, with_names) IN
    IF positions = {} THEN 0
    ELSE 10 * DigitAt(line, Minimum(positions))
             + DigitAt(line, CHOOSE p \in positions :
                                 \A q \in positions : q <= p)

(***************************************************************************)
(* C18.  In DigitAndName mode identify_calibration_value_single_line       *)
(* takes a spelled-out digit name that starts at any position of the line  *)
(* as a digit at that position, names that overlap included ("twone" is 2  *)
(* then 1), and returns 10 x first + last over the digit characters and    *)
(* the names in position order: 83 for "eightwothree", 24 for              *)
(* "xtwone3four", 14 for "zoneight234".                                    *)
(***************************************************************************)
C18_NamesCountAsDigits ==
    pc = "line_identified" /\ identification_mode = "DigitAndName"
        /\ DigitPositions(document[1], TRUE) # {}
        => /\ outcome = Return(FirstAndLast(document[1], TRUE))
           /\ document[1] = <<"t", "w", "o", "n", "e">> => outcome = Return(21)
           /\ document[1] = TestDigitsAndNames[2] => outcome = Return(83)
           /\ document[1] = TestDigitsAndNames[4] => outcome = Return(24)
           /\ document[1] = TestDigitsAndNames[6] => outcome = Return(14)

(***************************************************************************)
(* C19.  In Digit mode identify_calibration_value_single_line returns      *)
(* 10 x (first decimal digit character) + (last decimal digit character),  *)
(* the same digit twice when the line has one digit, names ignored, and 0  *)
(* when the line has no digit; identify_calibration_values returns one     *)
(* such value per line of the input, in the order of the lines.            *)
(***************************************************************************)
C19_DigitModeFirstAndLastDigit ==
    /\ pc = "line_identified" /\ identification_mode = "Digit" =>
          outcome = Return(FirstAndLast(document[1], FALSE))
    /\ pc = "values_identified" /\ identification_mode = "Digit" =>
          /\ outcome = Return([i \in 1..Len(document) |->
                                 FirstAndLast(document[i], FALSE)])
          /\ document = TestDigitsOnly => outcome = Return(<<12, 38, 15, 77>>)

\* Two lines went through identify_calibration_values in Digit mode: one
\* with a single digit and a digit name beside it, one without any digit.
C19_Witness ==
    /\ pc = "values_identified" /\ identification_mode = "Digit"
    /\ Len(document) = 2
    /\ Cardinality(DigitPositions(document[1], FALSE)) = 1
    /\ DigitPositions(document[1], TRUE) # DigitPositions(document[1], FALSE)
    /\ DigitPositions(document[2], FALSE) = {}
    /\ outcome = Return(<<22, 0>>)

\* The cell x of the row y (both 0-based) holds a digit.
DigitCell(map, x, y) ==
    /\ y \in 0..(Len(map) - 1)
    /\ x \in 0..(Len(map[y + 1]) - 1)
    /\ map[y + 1][x + 1].part = "PartialPartId"

\* The cells x..x+length-1 of the row y are a maximal run of digit cells.
MaximalRun(map, x, y, length) ==
    /\ length > 0
    /\ \A k \in 0..(length - 1) : DigitCell(map, x + k, y)
    /\ ~DigitCell(map, x - 1, y)
    /\ ~DigitCell(map, x + length, y)

\* The decimal value of the digits of the cells x..x+length-1 of the row y.
RECURSIVE DecimalValue(_, _, _, _)
DecimalValue(map, x, y, length) ==
    IF length = 0 THEN 0
    ELSE 10 * DecimalValue(map, x, y, length - 1)
             + to_digit(map[y + 1][x + length].c)

\* One PartId per maximal run.
PartIdsOfRuns(map) ==
    UNION { { PartId(DecimalValue(map, run[1], y, run[2]),
                     Position(run[1], y), run[2]) :
                run \in { r \in (0..(Len(map[y + 1]) - 1))
                                  \X (1..Len(map[y + 1])) :
                            MaximalRun(map, r[1], y, r[2]) } } :
            y \in 0..(Len(map) - 1) }

\* Row-major order: the top row first, and a row from left to right.
RowMajorBefore(a, b) ==
    \/ a.y < b.y
    \/ a.y = b.y /\ a.x < b.x

(***************************************************************************)
(* C20.  Schematic::identify_part_ids returns, in row-major order, one     *)
(* PartId for every maximal run of consecutive digit cells of a row: its   *)
(* id the decimal value of the run, its position the first cell of the     *)
(* run, its length the number of digits.  A run that reaches the end of    *)
(* its row is included, and no run goes on into the next row.              *)
(***************************************************************************)
C20_OnePartIdPerRunOfDigits ==
    pc = "part_ids_identified" =>
        /\ outcome.panic = "" /\ outcome # NotCalled
        /\ LET part_ids == outcome.val[1] IN
           /\ { part_ids[i] : i \in 1..Len(part_ids) } = PartIdsOfRuns(schematic)
           /\ Len(part_ids) = Cardinality(PartIdsOfRuns(schematic))
           /\ \A i \in 1..Len(part_ids), j \in 1..Len(part_ids) :
                 i < j => RowMajorBefore(part_ids[i].position,
                                         part_ids[j].position)
        /\ schematic = Schematic_build_map(TestSchematic) =>
              outcome = Return(<< PartId(467, Position(0, 0), 3),
                                  PartId(114, Position(5, 0), 3),
                                  PartId(35, Position(2, 2), 2),
                                  PartId(633, Position(6, 2), 3) >>)

\* The cell x of the row y (both 0-based) lies inside the grid.
InGrid(map, x, y) ==
    /\ y \in 0..(Len(map) - 1)
    /\ x \in 0..(Len(map[y + 1]) - 1)

\* The Symbol cells of the grid inside the rectangle around the part.
SymbolsAround(part_id, map) ==
    { SymbolInformations(map[cell[2] + 1][cell[1] + 1].c,
                         Position(cell[1], cell[2])) :
        cell \in { c \in ((part_id.position.x - 1)
                              ..(part_id.position.x + part_id.length))
                         \X ((part_id.position.y - 1)
                                 ..(part_id.position.y + 1)) :
                     /\ InGrid(map, c[1], c[2])
                     /\ map[c[2] + 1][c[1] + 1].part = "Symbol" } }

SymbolsScanned == pc = "symbols_scanned"

=============================================================================
